---- MODULE Spec2Model ----
(***************************************************************************)
(* Rinvo's Blendshape Transfer (src/source/__init__.py): the add-on's      *)
(* scene properties, its update callbacks and its operators, as a state    *)
(* machine.  Every operator and every property update runs to completion   *)
(* before the next one starts (single-threaded host event loop), so each   *)
(* is one action.                                                          *)
(*                                                                         *)
(* Host behaviour the code relies on, as the host documents it:            *)
(*  - assigning a property from Python runs its update callback, also when *)
(*    the value does not change; an exception raised inside an update      *)
(*    callback is printed and swallowed, one raised inside an operator's   *)
(*    execute() ends the operator where it stands (nothing is rolled back);*)
(*  - shape-key and modifier names are unique per object: a name that is   *)
(*    taken gets the first free ".001", ".002", ... appended;              *)
(*  - a mesh whose last shape key is removed has no shape keys at all      *)
(*    (data.shape_keys is None), and applying a modifier as a shape key to *)
(*    such a mesh first creates a "Basis" key;                             *)
(*  - a new shape key has value 0;                                         *)
(*  - VertexGroup.add is refused, with an exception, on an object that is  *)
(*    in edit mode; a new vertex group has no vertex in it.                *)
(* Activation values are the two ends of the sliders' range, 0.0 and 1.0,   *)
(* the values the code itself writes.                                      *)
(***************************************************************************)
EXTENDS Integers, Sequences, FiniteSets, TLC

\* ---------------------------------------------------------------- bounds
MaxRuns == 1          \* source copies the transfer operator links in one behaviour
NumVerts == 2         \* vertices of a target mesh

\* ------------------------------------------------------------ the scene
None == "None"
SourceObjs == {"s1", "s2"}
TransferSources == {"s1"}   \* the sources Spec assigns; SpecPreview assigns all
RunSources == {"s2"}        \* the sources SpecRun assigns
TargetObjs == {"t1"}
Objs == SourceObjs \cup TargetObjs

One == 1              \* the activation 1.0
Zero == 0             \* the activation 0.0
Values == {Zero, One}
Verts == 1..NumVerts
Modes == {"OBJECT", "EDIT", "WEIGHT_PAINT"}

VARIABLES
    keys,                    \* object -> its data.shape_keys.key_blocks (<<>>: no shape keys)
    modifiers,               \* object -> its modifier stack, by name
    vertex_groups,           \* object -> the names of its vertex groups
    saved,                   \* object -> its "bs_saved_data" custom property
    bs_source,               \* Scene.bs_source
    bs_target,               \* Scene.bs_target
    bs_shape_keys,           \* Scene.bs_shape_keys
    bs_override_existing,    \* Scene.bs_override_existing
    bs_use_subdivision,      \* Scene.bs_use_subdivision
    bs_use_displace,         \* Scene.bs_use_displace
    bs_preview_subdivision,  \* Scene.bs_preview_subdivision
    bs_preview_displace,     \* Scene.bs_preview_displace
    duplicates,              \* copies of the source linked to the scene's collection
    mask_weights,            \* object -> the weights of its BlendshapeTransferMask group, per vertex
    topology,                \* object -> the faces of its mesh: "ngons" or "triangles"
    mode,                    \* the host's interaction mode (that of the active object)
    last                     \* the operation that produced this state, and how it ended

vars == <<keys, modifiers, vertex_groups, saved, bs_source, bs_target, bs_shape_keys,
          bs_override_existing, bs_use_subdivision, bs_use_displace,
          bs_preview_subdivision, bs_preview_displace, duplicates, mask_weights, topology,
          mode, last>>

optionVars == <<bs_override_existing, bs_use_subdivision, bs_use_displace>>
previewVars == <<bs_preview_subdivision, bs_preview_displace>>
hostVars == <<mask_weights, topology, mode>>

\* ------------------------------------------------------ shape-key blocks
KeyBlock(n, v) == [name |-> n, value |-> v]

KeyNames(ks) == {ks[i].name : i \in DOMAIN ks}

HasKey(ks, n) == \E i \in DOMAIN ks : ks[i].name = n

KeyIndex(ks, n) == CHOOSE i \in DOMAIN ks : ks[i].name = n

KeyValue(ks, n) == ks[KeyIndex(ks, n)].value

SetKeyValueByName(ks, n, v) ==
    [i \in DOMAIN ks |-> IF ks[i].name = n THEN [ks[i] EXCEPT !.value = v] ELSE ks[i]]

RemoveKey(ks, n) == SelectSeq(ks, LAMBDA k : k.name # n)

\* The host's unique naming: the name itself when free, else the first free
\* numbered variant.
NumberSuffixes == <<".001", ".002", ".003", ".004">>

UniqueName(n, taken) ==
    IF n \notin taken THEN n
    ELSE LET free == {j \in DOMAIN NumberSuffixes : (n \o NumberSuffixes[j]) \notin taken}
             first == CHOOSE j \in free : \A k \in free : j <= k
         IN n \o NumberSuffixes[first]

\* ------------------------------------------------------ BlendshapeItem
\* Defaults of the property group.
NewItem == [name |-> "", select |-> FALSE, target_key_name |-> "",
            source_key_name |-> "", sync_value |-> Zero]

InDict(d, n) == \E i \in DOMAIN d : d[i].name = n

DictGet(d, n) == d[CHOOSE i \in DOMAIN d : d[i].name = n /\ \A j \in DOMAIN d : d[j].name = n => j <= i]

\* FloatProperty(min=0.0, max=1.0)
ClampSync(v) == IF v < Zero THEN Zero ELSE IF v > One THEN One ELSE v

\* A plausible slip in lines 183-185: only the target's key is driven.
update_sync_value_target_only(K, src, tgt, item) ==
    IF /\ tgt # None
       /\ K[tgt] # <<>>
       /\ HasKey(K[tgt], item.target_key_name)
       /\ src # None
       /\ K[src] # <<>>
       /\ HasKey(K[src], item.source_key_name)
    THEN [K EXCEPT ![tgt] = SetKeyValueByName(@, item.target_key_name, item.sync_value)]
    ELSE K

\* BlendshapeItem.update_sync_value, run on every assignment to sync_value.
\* K is the scene's shape keys; the result is K after the callback.  A missing
\* target, or a target or source without shape keys, raises inside the
\* callback before anything is assigned.
update_sync_value(K, src, tgt, item) ==
    IF /\ tgt # None
       /\ K[tgt] # <<>>
       /\ HasKey(K[tgt], item.target_key_name)
       /\ src # None
       /\ K[src] # <<>>
       /\ HasKey(K[src], item.source_key_name)
    THEN LET K1 == [K EXCEPT ![tgt] = SetKeyValueByName(@, item.target_key_name, item.sync_value)]
         IN [K1 EXCEPT ![src] = SetKeyValueByName(@, item.source_key_name, item.sync_value)]
    ELSE K

\* ------------------------------------------------- update_blendshape_list
\* The loop of update_blendshape_list from source key i on.  acc is the list
\* rebuilt so far, K the shape keys (the sync_value assignment runs the
\* callback), saved_data the snapshot of the previous list.  raised: the
\* target lookup of line 45 failed (no target, or a target without shape
\* keys) and the function stopped there.
RECURSIVE ubl_loop(_, _, _, _, _, _)
ubl_loop(i, acc, K, saved_data, src, tgt) ==
    IF i > Len(K[src]) THEN [list |-> acc, keys |-> K, raised |-> FALSE]
    ELSE LET key == K[src][i]
             item0 == [NewItem EXCEPT !.name = key.name]
         IN IF ~InDict(saved_data, key.name)
            THEN ubl_loop(i + 1, Append(acc, [item0 EXCEPT !.select = FALSE]), K,
                          saved_data, src, tgt)
            ELSE LET old == DictGet(saved_data, key.name)
                     item1 == [item0 EXCEPT !.select = old.select]
                 IN IF tgt = None \/ K[tgt] = <<>>
                    THEN [list |-> Append(acc, item1), keys |-> K, raised |-> TRUE]
                    ELSE IF HasKey(K[tgt], key.name)
                    THEN LET item2 == [item1 EXCEPT !.target_key_name = old.target_key_name,
                                                    !.source_key_name = old.source_key_name,
                                                    !.sync_value = ClampSync(old.sync_value)]
                         IN ubl_loop(i + 1, Append(acc, item2),
                                     update_sync_value(K, src, tgt, item2),
                                     saved_data, src, tgt)
                    ELSE ubl_loop(i + 1, Append(acc, item1), K, saved_data, src, tgt)

update_blendshape_list(list, K, src, tgt) ==
    IF src # None /\ K[src] # <<>>
    THEN ubl_loop(1, <<>>, K, list, src, tgt)
    ELSE [list |-> <<>>, keys |-> K, raised |-> FALSE]

\* ------------------------------------------------- load_target / save_target
\* A plausible slip in lines 87-90: the selection is not carried over.
restore_saved_state_without_select(item, old) ==
    [item EXCEPT !.target_key_name = old.target_key_name,
                 !.source_key_name = old.source_key_name,
                 !.sync_value = ClampSync(old.sync_value)]

\* Lines 87-90: the four saved fields are put back on the entry.
restore_saved_state(item, old) ==
    [item EXCEPT !.select = old.select,
                 !.target_key_name = old.target_key_name,
                 !.source_key_name = old.source_key_name,
                 !.sync_value = ClampSync(old.sync_value)]

\* Lines 80-96: the loop over the source's keys when the target carries saved
\* data.  raised: line 86 looked a name up in the shape keys of a target that
\* has none.
RECURSIVE lt_loop(_, _, _, _, _, _)
lt_loop(i, acc, K, saved_data, src, tgt) ==
    IF i > Len(K[src]) THEN [list |-> acc, keys |-> K, raised |-> FALSE]
    ELSE LET key == K[src][i]
             item0 == [NewItem EXCEPT !.name = key.name]
         IN IF InDict(saved_data, key.name) /\ K[tgt] = <<>>
            THEN [list |-> Append(acc, item0), keys |-> K, raised |-> TRUE]
            ELSE IF InDict(saved_data, key.name) /\ HasKey(K[tgt], key.name)
            THEN LET item1 == restore_saved_state(item0, DictGet(saved_data, key.name))
                 IN lt_loop(i + 1, Append(acc, item1),
                            update_sync_value(K, src, tgt, item1), saved_data, src, tgt)
            ELSE LET item1 == [item0 EXCEPT !.select = FALSE,
                                            !.target_key_name = "",
                                            !.source_key_name = "",
                                            !.sync_value = ClampSync(key.value)]
                 IN lt_loop(i + 1, Append(acc, item1),
                            update_sync_value(K, src, tgt, item1), saved_data, src, tgt)

\* Lines 98-105: entries whose name is not in the saved data are reset; the
\* sync value comes from `key`, the variable the loop above left behind, which
\* is the source's last shape key.
RECURSIVE lt_reset(_, _, _, _, _, _)
lt_reset(j, list, K, saved_data, src, tgt) ==
    IF j > Len(list) THEN [list |-> list, keys |-> K, raised |-> FALSE]
    ELSE IF InDict(saved_data, list[j].name)
    THEN lt_reset(j + 1, list, K, saved_data, src, tgt)
    ELSE LET key == K[src][Len(K[src])]
             item == [list[j] EXCEPT !.select = FALSE,
                                     !.target_key_name = "",
                                     !.source_key_name = "",
                                     !.sync_value = ClampSync(key.value)]
         IN lt_reset(j + 1, [list EXCEPT ![j] = item],
                     update_sync_value(K, src, tgt, item), saved_data, src, tgt)

\* A plausible slip in line 68: the list is not cleared before the rebuild.
clear_skipped(list) == list

\* Line 68: scene.bs_shape_keys.clear()
clear(list) == <<>>

load_target(list, K, src, tgt, S) ==
    IF tgt = None
    THEN [list |-> IF src # None /\ K[src] # <<>>
                   THEN [i \in DOMAIN K[src] |-> [NewItem EXCEPT !.name = K[src][i].name]]
                   ELSE <<>>,
          keys |-> K, raised |-> FALSE]
    ELSE IF ~S[tgt].present
    THEN update_blendshape_list(clear(list), K, src, tgt)
    ELSE IF src # None /\ K[src] # <<>>
    THEN LET r == lt_loop(1, <<>>, K, S[tgt].data, src, tgt)
         IN IF r.raised THEN r
            ELSE lt_reset(1, r.list, r.keys, S[tgt].data, src, tgt)
    ELSE [list |-> <<>>, keys |-> K, raised |-> FALSE]

\* The dictionary save_target stores on the target, one entry per list item.
save_target(list, tgt, S) ==
    IF tgt # None
    THEN [S EXCEPT ![tgt] = [present |-> TRUE, data |-> list]]
    ELSE S

update_target(list, K, src, tgt, S) == load_target(list, K, src, tgt, S)

\* ------------------------------------------- BlendshapeTransferOperator
KeySuffix == "_new"   \* Scene.bs_key_suffix (its default)

\* Lines 380-381, and line 132 for every key: the activations are set to 0.0.
zero_all(ks) == [i \in DOMAIN ks |-> [ks[i] EXCEPT !.value = Zero]]

\* A plausible slip in lines 130-132: the values are saved and not reset.
save_shape_key_states_only(ks) == [states |-> ks, keys |-> ks]

\* save_and_reset_shape_key_states: the saved name -> value states are the key
\* blocks as they were; the keys come back zeroed.
save_and_reset_shape_key_states(ks) == [states |-> ks, keys |-> zero_all(ks)]

restore_shape_key_states(ks, states) ==
    [i \in DOMAIN ks |-> IF HasKey(states, ks[i].name)
                         THEN [ks[i] EXCEPT !.value = KeyValue(states, ks[i].name)]
                         ELSE ks[i]]

\* Lines 144-148, the weights: a new group gets weight 1.0 on every vertex, an
\* existing group is left as it is.
ensure_transfer_mask_weights(groups, weights) ==
    IF "BlendshapeTransferMask" \notin groups THEN [v \in Verts |-> One] ELSE weights

\* ensure_transfer_mask_vertex_group
ensure_transfer_mask_vertex_group(groups) == groups \cup {"BlendshapeTransferMask"}

\* modifiers.new(name=...): appended under a unique name.
ModifierNew(mods, n) ==
    Append(mods, UniqueName(n, {mods[i] : i \in DOMAIN mods}))

ModifierRemove(mods, n) == SelectSeq(mods, LAMBDA m : m # n)

\* bpy.ops.object.modifier_apply_as_shapekey(keep_modifier=True): a mesh
\* without shape keys gets its Basis first; the new key is appended, named
\* after the modifier, with value 0.
modifier_apply_as_shapekey(ks, modname) ==
    LET base == IF ks = <<>> THEN <<KeyBlock("Basis", Zero)>> ELSE ks
    IN Append(base, KeyBlock(UniqueName(modname, KeyNames(base)), Zero))

\* key_blocks[-1].name = n
RenameLastKey(ks, n) ==
    LET others == {ks[i].name : i \in 1..(Len(ks) - 1)}
    IN [ks EXCEPT ![Len(ks)].name = UniqueName(n, others)]

\* Lines 352-354: the run works on a copy of the source object with its own
\* copy of the mesh data.  Copy names that object while the run lasts; F is a
\* per-object part of the scene (shape keys, modifiers, topology).
Copy == "copy"

WithCopy(F, src) == [o \in Objs \cup {Copy} |-> IF o = Copy THEN F[src] ELSE F[o]]

\* The scene's original objects once the run is over.
WithoutCopy(F) == [o \in Objs |-> F[o]]

\* A plausible slip in line 352: the run works on scene.bs_source itself.
run_object_is_original(src) == src

\* Line 352: from here on the local `source` is the copy.
run_object(src) == Copy

\* ensure_surface_deform_compatibility: non-manifold edges are split and every
\* face is triangulated.
ensure_surface_deform_compatibility(topo) == "triangles"

\* A plausible slip in lines 433-435: the loop ends at a missing key.
after_missing_key_stop(j, L) == Len(L) + 1

\* Lines 433-435: warning, then `continue` with the next selected entry.
after_missing_key(j, L) == j + 1

\* Lines 437-460 for list entry j, whose key exists on the run's object obj.
\* L is bs_shape_keys, K the shape keys of the scene and the copy, surf the
\* Surface Deform modifier's name; src is the original source (the sync
\* callback reads scene.bs_source).  at_bake is what the host's
\* modifier_apply_as_shapekey finds at line 451: the entry's name, the shape
\* keys of the run's object and those of the target.
bake_entry(j, L, K, obj, src, tgt, surf, override) ==
    LET name == L[j].name
        sync_value == KeyValue(K[obj], name)
        K1 == [K EXCEPT ![obj] = SetKeyValueByName(@, name, One)]
        there == HasKey(K1[tgt], name)
        K2 == IF there /\ override THEN [K1 EXCEPT ![tgt] = RemoveKey(@, name)] ELSE K1
        key_name == IF there /\ ~override THEN name \o KeySuffix ELSE name
        K3 == [K2 EXCEPT ![tgt] = RenameLastKey(modifier_apply_as_shapekey(@, surf), key_name)]
        item == [L[j] EXCEPT !.target_key_name = key_name,
                             !.source_key_name = name,
                             !.sync_value = ClampSync(sync_value)]
        K4 == update_sync_value(K3, src, tgt, item)
    IN [list |-> [L EXCEPT ![j] = item],
        keys |-> [K4 EXCEPT ![obj] = SetKeyValueByName(@, name, Zero)],
        at_bake |-> [name |-> name, dup |-> K2[obj], target |-> K2[tgt]]]

\* Lines 428-460, from list entry j on.  bakes: what each bake found, in the
\* order of the bakes.
RECURSIVE bake_loop(_, _, _, _, _, _, _, _)
bake_loop(j, L, K, obj, src, tgt, surf, override) ==
    IF j > Len(L) THEN [list |-> L, keys |-> K, bakes |-> <<>>]
    ELSE IF ~L[j].select
    THEN bake_loop(j + 1, L, K, obj, src, tgt, surf, override)
    ELSE IF ~HasKey(K[obj], L[j].name)
    THEN bake_loop(after_missing_key(j, L), L, K, obj, src, tgt, surf, override)
    ELSE LET r == bake_entry(j, L, K, obj, src, tgt, surf, override)
             rest == bake_loop(j + 1, r.list, r.keys, obj, src, tgt, surf, override)
         IN [rest EXCEPT !.bakes = <<r.at_bake>> \o @]

\* Lines 374-476 of execute, after validation.  K, M, G, W, T are the scene's
\* shape keys, modifiers, vertex groups, mask weights and topology, S the
\* saved blobs.  The result carries what the run leaves on the scene's
\* original objects.
transfer_run(L, K, M, G, W, T, S, src, tgt, override, use_subdivision, use_displace) ==
    LET obj == run_object(src)
        Kc == WithCopy(K, src)
        srcSaved == save_and_reset_shape_key_states(Kc[obj])
        tgtSaved == save_and_reset_shape_key_states(Kc[tgt])
        K0 == [[Kc EXCEPT ![obj] = zero_all(srcSaved.keys)] EXCEPT ![tgt] = tgtSaved.keys]
        M0 == IF use_subdivision
              THEN [WithCopy(M, src) EXCEPT ![obj] = ModifierNew(@, "Subdivision Temp")]
              ELSE WithCopy(M, src)
        subdiv_mod == M0[obj][Len(M0[obj])]
        K1 == IF use_displace
              THEN [K0 EXCEPT ![obj] =
                       [RenameLastKey(modifier_apply_as_shapekey(@, "Displace Temp"),
                                      "Displace Temp") EXCEPT ![Len(@) + 1].value = One]]
              ELSE K0
        T1 == [WithCopy(T, src) EXCEPT ![obj] = ensure_surface_deform_compatibility(@)]
        K2 == [K1 EXCEPT ![tgt] = IF @ = <<>> THEN <<KeyBlock("Basis", Zero)>> ELSE @]
        G1 == [G EXCEPT ![tgt] = ensure_transfer_mask_vertex_group(@)]
        W1 == [W EXCEPT ![tgt] = ensure_transfer_mask_weights(G[tgt], @)]
        M1 == [M0 EXCEPT ![tgt] = ModifierNew(@, "Surface Deform")]
        surf == M1[tgt][Len(M1[tgt])]
        b == bake_loop(1, L, K2, obj, src, tgt, surf, override)
        K3 == [[b.keys EXCEPT ![obj] = restore_shape_key_states(@, srcSaved.states)]
                  EXCEPT ![tgt] = restore_shape_key_states(@, tgtSaved.states)]
        M2 == IF use_subdivision THEN [M1 EXCEPT ![obj] = ModifierRemove(@, subdiv_mod)] ELSE M1
        K4 == IF use_displace THEN [K3 EXCEPT ![obj] = RemoveKey(@, "Displace Temp")] ELSE K3
        M3 == [M2 EXCEPT ![tgt] = ModifierRemove(@, surf)]
    IN [list |-> b.list, keys |-> WithoutCopy(K4), modifiers |-> WithoutCopy(M3),
        vertex_groups |-> G1, mask_weights |-> W1, topology |-> WithoutCopy(T1),
        saved |-> save_target(b.list, tgt, S), bakes |-> b.bakes]

Outcome(op, result) ==
    [op |-> op, result |-> result, validated |-> FALSE, bound |-> TRUE, mode_before |-> None,
     bakes |-> <<>>]

\* BlendshapeTransferOperator.execute.  bind_ok is whether the host's
\* surfacedeform_bind established the binding; execute never reads it.
\*  - no source: line 352 raises on None;
\*  - the copy is linked to the scene before anything is validated;
\*  - lines 479/481 assign Object.select, an attribute the host's Object does
\*    not have: the operator ends there with AttributeError, before
\*    bpy.ops.object.delete().
Transfer(bind_ok) ==
    /\ duplicates < MaxRuns
    /\ IF bs_source = None
       THEN /\ last' = [Outcome("transfer", "EXCEPTION") EXCEPT !.bound = bind_ok]
            /\ UNCHANGED <<keys, modifiers, vertex_groups, saved, bs_shape_keys, duplicates, hostVars>>
       ELSE /\ duplicates' = duplicates + 1
            /\ IF \/ bs_target = None
                  \/ keys[bs_source] = <<>>
                  \/ \A i \in DOMAIN bs_shape_keys : ~bs_shape_keys[i].select
               THEN /\ last' = [Outcome("transfer", "CANCELLED") EXCEPT !.bound = bind_ok]
                    /\ UNCHANGED <<keys, modifiers, vertex_groups, saved, bs_shape_keys, hostVars>>
               ELSE LET r == transfer_run(bs_shape_keys, keys, modifiers, vertex_groups,
                                          mask_weights, topology, saved,
                                          bs_source, bs_target, bs_override_existing,
                                          bs_use_subdivision, bs_use_displace)
                    IN /\ bs_shape_keys' = r.list
                       /\ keys' = r.keys
                       /\ modifiers' = r.modifiers
                       /\ vertex_groups' = r.vertex_groups
                       /\ mask_weights' = r.mask_weights
                       /\ topology' = r.topology
                       /\ mode' = "OBJECT"
                       /\ saved' = r.saved
                       /\ last' = [Outcome("transfer", "EXCEPTION") EXCEPT
                                       !.validated = TRUE, !.bound = bind_ok,
                                       !.bakes = r.bakes]
    /\ UNCHANGED <<bs_source, bs_target, optionVars, previewVars>>

\* ------------------------------------------------ update_preview_modifiers
\* mod.name.startswith(prefix)
StartsWith(n, prefix) == Len(n) >= Len(prefix) /\ SubSeq(n, 1, Len(prefix)) = prefix

\* Lines 544-547.  The host's collection iterator has already moved on to the
\* next modifier when the loop body removes the current one, so every modifier
\* is visited.
RemovePreviewModifiers(mods) == SelectSeq(mods, LAMBDA m : ~StartsWith(m, "Preview_"))

\* update_preview_modifiers with a source set.  P holds the source's modifier
\* stack and the two preview flags; use_sub and use_disp are the use flags.
\* Clearing a preview flag (lines 551, 553) is a property assignment, so it
\* runs the flag's update callback, this function again, to completion before
\* the outer call goes on.
RECURSIVE update_preview_modifiers(_, _, _)
update_preview_modifiers(P, use_sub, use_disp) ==
    LET P1 == [P EXCEPT !.mods = RemovePreviewModifiers(@)]
        P2 == IF P1.preview_subdivision /\ ~use_sub
              THEN update_preview_modifiers([P1 EXCEPT !.preview_subdivision = FALSE],
                                            use_sub, use_disp)
              ELSE P1
        P3 == IF P2.preview_displace /\ ~use_disp
              THEN update_preview_modifiers([P2 EXCEPT !.preview_displace = FALSE],
                                            use_sub, use_disp)
              ELSE P2
        P4 == IF P3.preview_subdivision
              THEN [P3 EXCEPT !.mods = ModifierNew(@, "Preview_Subdivision")]
              ELSE P3
    IN IF P4.preview_displace
       THEN [P4 EXCEPT !.mods = ModifierNew(@, "Preview_Displace")]
       ELSE P4

\* The update callback of the use, preview and parameter properties (lines
\* 598-623), run after the property has its new value: the scene after it.
PreviewUpdate(use_sub, use_disp, prev_sub, prev_disp) ==
    IF bs_source = None
    THEN /\ bs_preview_subdivision' = prev_sub
         /\ bs_preview_displace' = prev_disp
         /\ UNCHANGED modifiers
    ELSE LET P == update_preview_modifiers(
                      [mods |-> modifiers[bs_source], preview_subdivision |-> prev_sub,
                       preview_displace |-> prev_disp], use_sub, use_disp)
         IN /\ bs_preview_subdivision' = P.preview_subdivision
            /\ bs_preview_displace' = P.preview_displace
            /\ modifiers' = [modifiers EXCEPT ![bs_source] = P.mods]

\* ------------------------------------------------------------------ Init
SourceKeys == [s1 |-> <<KeyBlock("Basis", Zero), KeyBlock("A", Zero)>>,
               s2 |-> <<KeyBlock("Basis", Zero), KeyBlock("C", Zero), KeyBlock("D", Zero)>>]

\* What the target mesh carries when the add-on is registered: no shape keys,
\* a key named like a source key, or also one named like it with the suffix.
TargetKeyChoices == {<<>>,
                     <<KeyBlock("Basis", Zero), KeyBlock("A", Zero)>>,
                     <<KeyBlock("Basis", Zero), KeyBlock("A", Zero), KeyBlock("A_new", Zero)>>}

\* A target mesh some of whose shape keys are active when the add-on is
\* registered: one named like a source key, or also one named like it with the
\* suffix.
ActiveTargetKeyChoices ==
    {<<KeyBlock("Basis", Zero), KeyBlock("C", One)>>,
     <<KeyBlock("Basis", Zero), KeyBlock("C", One), KeyBlock("C_new", One)>>}

\* The scene when the add-on is registered, the target mesh carrying one of
\* the key sequences in choices.
InitWith(choices) ==
    /\ \E tk \in choices :
          keys = [o \in Objs |-> IF o \in SourceObjs THEN SourceKeys[o] ELSE tk]
    /\ modifiers = [o \in Objs |-> <<>>]
    /\ vertex_groups = [o \in Objs |-> {}]
    /\ saved = [o \in Objs |-> [present |-> FALSE, data |-> <<>>]]
    /\ bs_source = None
    /\ bs_target = None
    /\ bs_shape_keys = <<>>
    /\ bs_override_existing = TRUE
    /\ bs_use_subdivision = FALSE
    /\ bs_use_displace = FALSE
    /\ bs_preview_subdivision = FALSE
    /\ bs_preview_displace = FALSE
    /\ duplicates = 0
    /\ mask_weights = [o \in Objs |-> <<>>]
    /\ topology = [o \in Objs |-> "ngons"]
    /\ mode = "OBJECT"
    /\ last = Outcome("register", "FINISHED")

Init == InitWith(TargetKeyChoices)

\* --------------------------------------------------------------- actions
\* Scene.bs_source is assigned: update=update_blendshape_list.
SetSource(o) ==
    LET r == update_blendshape_list(bs_shape_keys, keys, o, bs_target)
    IN /\ bs_source' = o
       /\ bs_shape_keys' = r.list
       /\ keys' = r.keys
       /\ last' = Outcome("set_source", IF r.raised THEN "EXCEPTION" ELSE "FINISHED")
       /\ UNCHANGED <<modifiers, vertex_groups, saved, bs_target, optionVars, previewVars,
                      duplicates, hostVars>>

\* BlendshapeRefreshOperator.execute
Refresh ==
    LET r == update_blendshape_list(bs_shape_keys, keys, bs_source, bs_target)
    IN /\ bs_shape_keys' = r.list
       /\ keys' = r.keys
       /\ last' = Outcome("refresh", IF r.raised THEN "EXCEPTION" ELSE "FINISHED")
       /\ UNCHANGED <<modifiers, vertex_groups, saved, bs_source, bs_target, optionVars,
                      previewVars, duplicates, hostVars>>

\* Scene.bs_target is assigned: update=update_target.
SetTarget(o) ==
    LET r == update_target(bs_shape_keys, keys, bs_source, o, saved)
    IN /\ bs_target' = o
       /\ bs_shape_keys' = r.list
       /\ keys' = r.keys
       /\ last' = Outcome("set_target", IF r.raised THEN "EXCEPTION" ELSE "FINISHED")
       /\ UNCHANGED <<modifiers, vertex_groups, saved, bs_source, optionVars, previewVars,
                      duplicates, hostVars>>

\* UI_UL_BlendshapeList.draw_item, the checkbox of row i (line 231).
ToggleSelect(i) ==
    /\ i \in DOMAIN bs_shape_keys
    /\ bs_shape_keys' = [bs_shape_keys EXCEPT ![i].select = ~@]
    /\ last' = Outcome("toggle_select", "FINISHED")
    /\ UNCHANGED <<keys, modifiers, vertex_groups, saved, bs_source, bs_target, optionVars,
                   previewVars, duplicates, hostVars>>

\* draw_item, the sync slider of row i, drawn when the entry has a recorded
\* target key (lines 221-225); the assignment runs update_sync_value.
SetSyncValue(i, v) ==
    /\ i \in DOMAIN bs_shape_keys
    /\ bs_shape_keys[i].target_key_name # ""
    /\ LET item == [bs_shape_keys[i] EXCEPT !.sync_value = ClampSync(v)]
       IN /\ bs_shape_keys' = [bs_shape_keys EXCEPT ![i] = item]
          /\ keys' = update_sync_value(keys, bs_source, bs_target, item)
    /\ last' = Outcome("set_sync_value", "FINISHED")
    /\ UNCHANGED <<modifiers, vertex_groups, saved, bs_source, bs_target, optionVars,
                   previewVars, duplicates, hostVars>>

\* draw_item, the slider of the source key's own value, drawn when the entry
\* has no recorded target key (lines 226-229).
SetSourceKeyValue(i, v) ==
    /\ i \in DOMAIN bs_shape_keys
    /\ bs_shape_keys[i].target_key_name = ""
    /\ bs_source # None
    /\ HasKey(keys[bs_source], bs_shape_keys[i].name)
    /\ keys' = [keys EXCEPT ![bs_source] = SetKeyValueByName(@, bs_shape_keys[i].name, v)]
    /\ last' = Outcome("set_key_value", "FINISHED")
    /\ UNCHANGED <<modifiers, vertex_groups, saved, bs_source, bs_target, bs_shape_keys,
                   optionVars, previewVars, duplicates, hostVars>>

\* The panel's "Override Existing Shape Keys" checkbox (line 278).
SetOverrideExisting(b) ==
    /\ bs_override_existing' = b
    /\ last' = Outcome("set_override", "FINISHED")
    /\ UNCHANGED <<keys, modifiers, vertex_groups, saved, bs_source, bs_target, bs_shape_keys,
                   bs_use_subdivision, bs_use_displace, previewVars, duplicates, hostVars>>

\* Scene.bs_use_subdivision is assigned (line 598).
SetUseSubdivision(b) ==
    /\ bs_use_subdivision' = b
    /\ PreviewUpdate(b, bs_use_displace, bs_preview_subdivision, bs_preview_displace)
    /\ last' = Outcome("set_use_subdivision", "FINISHED")
    /\ UNCHANGED <<keys, vertex_groups, saved, bs_source, bs_target, bs_shape_keys,
                   bs_override_existing, bs_use_displace, duplicates, hostVars>>

\* Scene.bs_use_displace is assigned (line 601).
SetUseDisplace(b) ==
    /\ bs_use_displace' = b
    /\ PreviewUpdate(bs_use_subdivision, b, bs_preview_subdivision, bs_preview_displace)
    /\ last' = Outcome("set_use_displace", "FINISHED")
    /\ UNCHANGED <<keys, vertex_groups, saved, bs_source, bs_target, bs_shape_keys,
                   bs_override_existing, bs_use_subdivision, duplicates, hostVars>>

\* Scene.bs_preview_subdivision is assigned (lines 614-618); the panel draws
\* the checkbox while the use flag is on (lines 307-310).
SetPreviewSubdivision(b) ==
    /\ bs_use_subdivision
    /\ PreviewUpdate(bs_use_subdivision, bs_use_displace, b, bs_preview_displace)
    /\ last' = Outcome("set_preview_subdivision", "FINISHED")
    /\ UNCHANGED <<keys, vertex_groups, saved, bs_source, bs_target, bs_shape_keys,
                   optionVars, duplicates, hostVars>>

\* Scene.bs_preview_displace is assigned (lines 619-623); drawn while the use
\* flag is on (lines 315-319).
SetPreviewDisplace(b) ==
    /\ bs_use_displace
    /\ PreviewUpdate(bs_use_subdivision, bs_use_displace, bs_preview_subdivision, b)
    /\ last' = Outcome("set_preview_displace", "FINISHED")
    /\ UNCHANGED <<keys, vertex_groups, saved, bs_source, bs_target, bs_shape_keys,
                   optionVars, duplicates, hostVars>>

\* A subdivision or displacement parameter is assigned (lines 599-603); the
\* parameters' values are copied into the preview modifiers and are not part
\* of the state.
SetPreviewParameter ==
    /\ bs_use_subdivision \/ bs_use_displace
    /\ PreviewUpdate(bs_use_subdivision, bs_use_displace, bs_preview_subdivision,
                     bs_preview_displace)
    /\ last' = Outcome("set_parameter", "FINISHED")
    /\ UNCHANGED <<keys, vertex_groups, saved, bs_source, bs_target, bs_shape_keys,
                   optionVars, duplicates, hostVars>>

\* The user deletes shape key n of the source in the host's own Shape Keys
\* panel; the add-on is not told, so the list keeps its entry until the next
\* rebuild.
RemoveSourceKey(n) ==
    /\ bs_source # None
    /\ HasKey(keys[bs_source], n)
    /\ keys' = [keys EXCEPT ![bs_source] = RemoveKey(@, n)]
    /\ last' = Outcome("remove_source_key", "FINISHED")
    /\ UNCHANGED <<modifiers, vertex_groups, saved, bs_source, bs_target, bs_shape_keys,
                   optionVars, previewVars, duplicates, hostVars>>

\* A plausible slip in lines 508-512: the toggle only ever enters paint mode.
toggled_mode_always_paint(m) == "WEIGHT_PAINT"

\* Lines 508-512: weight-paint mode is left for object mode, every other mode
\* is left for weight-paint mode.
toggled_mode(m) == IF m = "WEIGHT_PAINT" THEN "OBJECT" ELSE "WEIGHT_PAINT"

\* ToggleTransferMaskPaintOperator.execute.  The target becomes the active
\* object (line 505); mode is the mode the host is in with it.  The record of
\* the step keeps the mode the operator found.  target_in_edit: the mesh the
\* host has open in edit mode is the target's.  The host refuses
\* VertexGroup.add on an object in edit mode, so there line 148 raises: the
\* group of line 145 stays, with no vertex in it, and the mode is not
\* switched.
ToggleMaskPaint(target_in_edit) ==
    /\ target_in_edit => mode = "EDIT"
    /\ IF bs_target = None
       THEN /\ last' = Outcome("toggle_mask_paint", "CANCELLED")
            /\ UNCHANGED <<vertex_groups, hostVars>>
       ELSE IF target_in_edit /\ "BlendshapeTransferMask" \notin vertex_groups[bs_target]
       THEN /\ vertex_groups' = [vertex_groups EXCEPT
                                    ![bs_target] = ensure_transfer_mask_vertex_group(@)]
            /\ mask_weights' = [mask_weights EXCEPT ![bs_target] = [v \in Verts |-> Zero]]
            /\ last' = [Outcome("toggle_mask_paint", "EXCEPTION") EXCEPT !.mode_before = mode]
            /\ UNCHANGED <<topology, mode>>
       ELSE /\ vertex_groups' = [vertex_groups EXCEPT
                                    ![bs_target] = ensure_transfer_mask_vertex_group(@)]
            /\ mask_weights' = [mask_weights EXCEPT
                                   ![bs_target] = ensure_transfer_mask_weights(
                                                      vertex_groups[bs_target], @)]
            /\ mode' = toggled_mode(mode)
            /\ last' = [Outcome("toggle_mask_paint", "FINISHED") EXCEPT !.mode_before = mode]
            /\ UNCHANGED topology
    /\ UNCHANGED <<keys, modifiers, saved, bs_source, bs_target, bs_shape_keys,
                   optionVars, previewVars, duplicates>>

\* ExitPaintModeOperator.execute
ExitPaintMode ==
    /\ mode' = IF mode = "WEIGHT_PAINT" THEN "OBJECT" ELSE mode
    /\ last' = Outcome("exit_paint_mode", "FINISHED")
    /\ UNCHANGED <<keys, modifiers, vertex_groups, saved, bs_source, bs_target, bs_shape_keys,
                   optionVars, previewVars, duplicates, mask_weights, topology>>

\* The user changes the interaction mode with the host's own mode menu.
SetMode(m) ==
    /\ m # mode
    /\ mode' = m
    /\ last' = Outcome("set_mode", "FINISHED")
    /\ UNCHANGED <<keys, modifiers, vertex_groups, saved, bs_source, bs_target, bs_shape_keys,
                   optionVars, previewVars, duplicates, mask_weights, topology>>

\* The user paints weight w on vertex v of the transfer mask, which the
\* toggle made the active vertex group (line 511), in weight-paint mode.
PaintMask(v, w) ==
    /\ mode = "WEIGHT_PAINT"
    /\ bs_target # None
    /\ "BlendshapeTransferMask" \in vertex_groups[bs_target]
    /\ mask_weights' = [mask_weights EXCEPT ![bs_target][v] = w]
    /\ last' = Outcome("paint_mask", "FINISHED")
    /\ UNCHANGED <<keys, modifiers, vertex_groups, saved, bs_source, bs_target, bs_shape_keys,
                   optionVars, previewVars, duplicates, topology, mode>>

MaxRows == 3          \* list rows the user edits

Next ==
    \/ \E o \in TransferSources \cup {None} : SetSource(o)
    \/ \E o \in TargetObjs \cup {None} : SetTarget(o)
    \/ Refresh
    \/ \E i \in 1..MaxRows : ToggleSelect(i)
    \/ \E i \in 1..MaxRows, v \in Values : SetSyncValue(i, v)
    \/ \E i \in 1..MaxRows, v \in Values : SetSourceKeyValue(i, v)
    \/ \E b \in BOOLEAN : SetOverrideExisting(b)
    \/ \E bind_ok \in BOOLEAN : Transfer(bind_ok)

Spec == Init /\ [][Next]_vars

\* The preview toggler on its own: the source pointer, the use and preview
\* flags and the parameters.
NextPreview ==
    \/ \E o \in SourceObjs \cup {None} : SetSource(o)
    \/ \E b \in BOOLEAN : SetUseSubdivision(b)
    \/ \E b \in BOOLEAN : SetUseDisplace(b)
    \/ \E b \in BOOLEAN : SetPreviewSubdivision(b)
    \/ \E b \in BOOLEAN : SetPreviewDisplace(b)
    \/ SetPreviewParameter

SpecPreview == Init /\ [][NextPreview]_vars

\* The names of the shape keys the sources S start with.
KeyNamesOf(S) == UNION {{SourceKeys[o][i].name : i \in DOMAIN SourceKeys[o]} : o \in S}

\* A transfer run with its pre-processing options.
NextRun ==
    \/ \E o \in RunSources : SetSource(o)
    \/ \E o \in TargetObjs : SetTarget(o)
    \/ \E i \in 1..MaxRows : ToggleSelect(i)
    \/ \E b \in BOOLEAN : SetUseSubdivision(b)
    \/ \E b \in BOOLEAN : SetUseDisplace(b)
    \/ \E bind_ok \in BOOLEAN : Transfer(bind_ok)

SpecRun == Init /\ [][NextRun]_vars

\* A transfer run on a source whose keys the user deletes behind the list's
\* back.
NextStale ==
    \/ \E o \in RunSources : SetSource(o)
    \/ \E o \in TargetObjs : SetTarget(o)
    \/ \E i \in 1..MaxRows : ToggleSelect(i)
    \/ \E n \in KeyNamesOf(RunSources) : RemoveSourceKey(n)
    \/ \E bind_ok \in BOOLEAN : Transfer(bind_ok)

SpecStale == Init /\ [][NextStale]_vars

\* The bakes of a run on a source and a target with active shape keys.
NextBake ==
    \/ \E o \in RunSources : SetSource(o)
    \/ \E o \in TargetObjs : SetTarget(o)
    \/ \E i \in 1..MaxRows : ToggleSelect(i)
    \/ \E i \in 1..MaxRows, v \in Values : SetSourceKeyValue(i, v)
    \/ \E b \in BOOLEAN : SetOverrideExisting(b)
    \/ \E b \in BOOLEAN : SetUseDisplace(b)
    \/ \E bind_ok \in BOOLEAN : Transfer(bind_ok)

SpecBake == InitWith(ActiveTargetKeyChoices) /\ [][NextBake]_vars

\* The sync sliders of the entries a run has baked, on a source whose keys the
\* user deletes behind the list's back.
NextSync ==
    \/ \E o \in TransferSources : SetSource(o)
    \/ \E o \in TargetObjs : SetTarget(o)
    \/ \E i \in 1..MaxRows : ToggleSelect(i)
    \/ \E i \in 1..MaxRows, v \in Values : SetSyncValue(i, v)
    \/ \E i \in 1..MaxRows, v \in Values : SetSourceKeyValue(i, v)
    \/ \E n \in KeyNamesOf(TransferSources) : RemoveSourceKey(n)
    \/ \E bind_ok \in BOOLEAN : Transfer(bind_ok)

SpecSync == Init /\ [][NextSync]_vars

\* The transfer mask: the paint-mode operators, the host's mode menu, the
\* user's painting, and transfer runs.
NextMask ==
    \/ \E o \in TransferSources : SetSource(o)
    \/ \E o \in TargetObjs \cup {None} : SetTarget(o)
    \/ \E i \in 1..MaxRows : ToggleSelect(i)
    \/ \E target_in_edit \in BOOLEAN : ToggleMaskPaint(target_in_edit)
    \/ ExitPaintMode
    \/ \E m \in Modes : SetMode(m)
    \/ \E v \in Verts, w \in Values : PaintMask(v, w)
    \/ \E bind_ok \in BOOLEAN : Transfer(bind_ok)

SpecMask == Init /\ [][NextMask]_vars

\* ================================================================ claims
\* The conditions execute checks before it starts the run (lines 357-368),
\* with the source set.
PassesValidation ==
    /\ bs_source # None
    /\ bs_target # None
    /\ keys[bs_source] # <<>>
    /\ \E i \in DOMAIN bs_shape_keys : bs_shape_keys[i].select

TransferStep == last'.op = "transfer"

KeyNameSeq(ks) == [i \in DOMAIN ks |-> ks[i].name]

\* The entries a run bakes: selected, and named like a key of the source.
Baked(i) == bs_shape_keys[i].select /\ HasKey(keys[bs_source], bs_shape_keys[i].name)

\* C1: a transfer run that passes validation leaves every shape key of the
\* original source with the activation value it had before the run.
C1_SourceActivationsKept ==
    [][(TransferStep /\ PassesValidation) => keys'[bs_source] = keys[bs_source]]_vars

\* C2: a transfer invoked with the source unset, the target unset, a source
\* without shape keys or nothing selected returns cancelled and changes
\* nothing: no object is added to the scene, and no shape key, value,
\* modifier, vertex group or list entry changes.
C2_FailedValidationMutatesNothing ==
    [][(TransferStep /\ ~PassesValidation) =>
           /\ last'.result = "CANCELLED"
           /\ UNCHANGED <<keys, modifiers, vertex_groups, saved, bs_shape_keys, duplicates>>]_vars

\* C3: after a transfer run that passes validation the copy of the source is
\* gone from the scene and the target has no Surface Deform modifier.
C3_NoDuplicateNoModifierLeft ==
    [][(TransferStep /\ PassesValidation) =>
           /\ duplicates' = duplicates
           /\ \A i \in DOMAIN modifiers'[bs_target] :
                  ~StartsWith(modifiers'[bs_target][i], "Surface Deform")]_vars

\* C4: a run that bakes one selected key whose name the target already has:
\* with override on, the key is replaced and the number of target keys stays;
\* with override off, a new key named name+suffix is added at the end, the
\* number grows by one and the same-named key is as it was.
C4_OverrideOrSuffix ==
    [][(TransferStep /\ PassesValidation) =>
           \A i \in DOMAIN bs_shape_keys :
               ( /\ Baked(i)
                 /\ \A j \in DOMAIN bs_shape_keys : bs_shape_keys[j].select => j = i
                 /\ HasKey(keys[bs_target], bs_shape_keys[i].name) ) =>
               LET name == bs_shape_keys[i].name
                   before == keys[bs_target]
                   after == keys'[bs_target]
               IN IF bs_override_existing
                  THEN Len(after) = Len(before) /\ HasKey(after, name)
                  ELSE /\ Len(after) = Len(before) + 1
                       /\ after[Len(after)].name = name \o KeySuffix
                       /\ SubSeq(after, 1, Len(before)) = before]_vars

\* C5: a list rebuild gives every source key whose name was in the previous
\* list an entry with the four fields it held, drops the entries of keys the
\* source no longer has, and gives keys new to the list a default entry.
RebuildStep == last'.op \in {"refresh", "set_source"}

C5_RebuildCarriesFieldsOver ==
    [][RebuildStep =>
           /\ \A i \in DOMAIN bs_shape_keys' :
                  bs_source' # None /\ HasKey(keys[bs_source'], bs_shape_keys'[i].name)
           /\ bs_source' # None =>
                  \A k \in DOMAIN keys[bs_source'] :
                      LET name == keys[bs_source'][k].name
                      IN \E i \in DOMAIN bs_shape_keys' :
                             /\ bs_shape_keys'[i].name = name
                             /\ IF InDict(bs_shape_keys, name)
                                THEN bs_shape_keys'[i] = DictGet(bs_shape_keys, name)
                                ELSE bs_shape_keys'[i] = [NewItem EXCEPT !.name = name]]_vars

\* C6: whatever the use flags, preview flags and parameters are set to, the
\* source carries at most one preview subdivision modifier and at most one
\* preview displacement modifier.
PreviewCount(mods, prefix) == Cardinality({i \in DOMAIN mods : StartsWith(mods[i], prefix)})

C6_AtMostOnePreviewEach ==
    bs_source # None =>
        /\ PreviewCount(modifiers[bs_source], "Preview_Subdivision") <= 1
        /\ PreviewCount(modifiers[bs_source], "Preview_Displace") <= 1

\* The assignment of a target that carries saved data.
LoadsSavedData ==
    /\ last'.op = "set_target"
    /\ bs_target' # None
    /\ saved[bs_target'].present

ItemFields(item) == <<item.select, item.target_key_name, item.source_key_name, item.sync_value>>

\* C7: assigning a target that carries the data saved by an earlier transfer
\* gives every source key whose name is both in the saved data and among the
\* target's shape keys an entry with the four fields exactly as saved.
C7_SavedFieldsRestored ==
    [][(LoadsSavedData /\ bs_source # None) =>
           \A k \in DOMAIN keys[bs_source] :
               LET name == keys[bs_source][k].name
                   data == saved[bs_target'].data
               IN (InDict(data, name) /\ HasKey(keys[bs_target'], name)) =>
                      /\ k \in DOMAIN bs_shape_keys'
                      /\ bs_shape_keys'[k].name = name
                      /\ ItemFields(bs_shape_keys'[k]) = ItemFields(DictGet(data, name))]_vars

\* Reached: a target with saved data has just been assigned, and an entry that
\* was selected and baked when the data was saved is back as saved.
C7_Witness ==
    /\ last.op = "set_target"
    /\ bs_target # None
    /\ saved[bs_target].present
    /\ \E i \in DOMAIN bs_shape_keys :
           /\ InDict(saved[bs_target].data, bs_shape_keys[i].name)
           /\ bs_shape_keys[i] = DictGet(saved[bs_target].data, bs_shape_keys[i].name)
           /\ bs_shape_keys[i].select
           /\ bs_shape_keys[i].target_key_name # ""

\* C8: a run records in every entry it bakes the name of a key the target then
\* has, the name of the source key, and as sync value the activation the
\* source key had before the run.
C8_BakeRecordsNamesAndValue ==
    [][(TransferStep /\ PassesValidation) =>
           \A i \in DOMAIN bs_shape_keys :
               Baked(i) =>
                   /\ HasKey(keys'[bs_target], bs_shape_keys'[i].target_key_name)
                   /\ bs_shape_keys'[i].source_key_name = bs_shape_keys[i].name
                   /\ bs_shape_keys'[i].sync_value =
                          KeyValue(keys[bs_source], bs_shape_keys[i].name)]_vars

\* C9: assigning a target that carries saved data leaves every entry whose
\* name is not in the saved data unselected, with empty key names and sync
\* value zero.
C9_AbsentEntriesResetToZero ==
    [][LoadsSavedData =>
           \A i \in DOMAIN bs_shape_keys' :
               ~InDict(saved[bs_target'].data, bs_shape_keys'[i].name) =>
                   bs_shape_keys'[i] = [NewItem EXCEPT !.name = bs_shape_keys'[i].name]]_vars

\* C10: a run whose binding fails ends as an operator failure and adds,
\* removes and renames no shape key of the target.
C10_FailedBindingCommitsNoKeys ==
    [][(TransferStep /\ PassesValidation /\ ~last'.bound) =>
           /\ last'.result # "FINISHED"
           /\ KeyNameSeq(keys'[bs_target]) = KeyNameSeq(keys[bs_target])]_vars

\* The list a rebuild is to produce: one entry name per source key, in the
\* source's order; nothing without a source.
SourceKeyNameSeq(src) == IF src = None THEN <<>> ELSE KeyNameSeq(keys[src])

\* C11: a list rebuild yields exactly one entry per shape key of the source,
\* named like the keys and in their order, whatever the previous list and the
\* target were; without a source the list is emptied.
C11_RebuildMatchesSourceKeys ==
    [][RebuildStep => KeyNameSeq(bs_shape_keys') = SourceKeyNameSeq(bs_source')]_vars

\* C12: a Refresh that directly follows a list rebuild, with nothing changed
\* in between, leaves the list as the first rebuild left it.
C12_RebuildTwiceSameList ==
    [][(last.op \in {"refresh", "set_source"} /\ last'.op = "refresh") =>
           bs_shape_keys' = bs_shape_keys]_vars

\* A run that passed validation has just been carried out.
RunStep == TransferStep /\ last'.validated

\* Entry i is selected and names no key of the source, hence none of its copy.
Stale(i) == bs_shape_keys[i].select /\ ~HasKey(keys[bs_source], bs_shape_keys[i].name)

\* The list with its stale entries not selected.
WithoutStale ==
    [i \in DOMAIN bs_shape_keys |->
        IF Stale(i) THEN [bs_shape_keys[i] EXCEPT !.select = FALSE] ELSE bs_shape_keys[i]]

\* C13: in a run, a selected entry that names no key of the copy is left as it
\* is and changes nothing on the target: the shape keys after the run are
\* those of the same run with that entry not selected.  Every selected entry
\* that does name a key is baked, before or after the stale one, and the baked
\* keys stand in the target in list order.
C13_StaleEntrySkippedOthersBaked ==
    [][RunStep =>
           LET r == transfer_run(WithoutStale, keys, modifiers, vertex_groups, mask_weights,
                                 topology, saved, bs_source, bs_target, bs_override_existing,
                                 bs_use_subdivision, bs_use_displace)
           IN /\ keys' = r.keys
              /\ \A i \in DOMAIN bs_shape_keys :
                     /\ Stale(i) => bs_shape_keys'[i] = bs_shape_keys[i]
                     /\ Baked(i) =>
                            /\ bs_shape_keys'[i] = r.list[i]
                            /\ bs_shape_keys'[i].source_key_name = bs_shape_keys[i].name
                            /\ HasKey(keys'[bs_target], bs_shape_keys'[i].target_key_name)
              /\ \A i, j \in DOMAIN bs_shape_keys :
                     (Baked(i) /\ Baked(j) /\ i < j) =>
                         KeyIndex(keys'[bs_target], bs_shape_keys'[i].target_key_name) <
                             KeyIndex(keys'[bs_target], bs_shape_keys'[j].target_key_name)]_vars

\* Reached: a run has passed over a selected entry whose key the user had
\* deleted from the source, and has baked a selected entry behind it.
C13_Witness ==
    /\ last.op = "transfer" /\ last.validated
    /\ \E i, j \in DOMAIN bs_shape_keys :
           /\ i < j
           /\ bs_shape_keys[i].select
           /\ ~HasKey(keys[bs_source], bs_shape_keys[i].name)
           /\ bs_shape_keys[i].target_key_name = ""
           /\ bs_shape_keys[j].select
           /\ bs_shape_keys[j].target_key_name # ""

\* Everything the mask-paint toggle could change.
ToggleFrame == <<keys, modifiers, vertex_groups, saved, bs_source, bs_target, bs_shape_keys,
                 optionVars, previewVars, duplicates, mask_weights, topology, mode>>

\* The mask-paint toggle is invoked.
ToggleStep == last'.op = "toggle_mask_paint"

\* The mask-paint toggle is invoked directly after an invocation that went
\* through, hence with the same target set.
SecondToggleStep == ToggleStep /\ last.op = "toggle_mask_paint" /\ last.result = "FINISHED"

\* The toggle without a target: an error, and nothing changes.
ToggleWithoutTargetNoOp ==
    (ToggleStep /\ bs_target = None) => (last'.result = "CANCELLED" /\ UNCHANGED ToggleFrame)

HasMask(groups) == bs_target # None /\ "BlendshapeTransferMask" \in groups[bs_target]

\* A transfer run or a mask-paint toggle has been carried out on a target.
MaskStep == RunStep \/ (ToggleStep /\ bs_target # None)

\* C15: a run or a mask-paint toggle on a target without the transfer mask
\* creates it with weight 1.0 on every vertex of the target; on a target that
\* has the mask, it leaves the mask in place with every weight as it was.
C15_MaskCreatedFullThenKept ==
    [][MaskStep =>
           /\ HasMask(vertex_groups')
           /\ mask_weights'[bs_target] =
                  IF HasMask(vertex_groups) THEN mask_weights[bs_target]
                  ELSE [v \in Verts |-> One]]_vars

\* An update callback of the preview toggler has run.
PreviewUpdateStep ==
    last'.op \in {"set_use_subdivision", "set_use_displace", "set_preview_subdivision",
                  "set_preview_displace", "set_parameter"}

\* The source carries a preview modifier of the kind named by prefix.
HasPreview(mods, prefix) == bs_source # None /\ PreviewCount(mods[bs_source], prefix) > 0

\* C16: after the update run by turning a use flag off, the preview flag of
\* that kind is off and the source has no preview modifier of that kind; and
\* after every update of the preview toggler with a source set, the source
\* has a preview modifier of a kind exactly when the preview flag and the use
\* flag of that kind are both on.
C16_PreviewFollowsUseFlag ==
    [][PreviewUpdateStep =>
           /\ (last'.op = "set_use_subdivision" /\ ~bs_use_subdivision') =>
                  ~bs_preview_subdivision' /\ ~HasPreview(modifiers', "Preview_Subdivision")
           /\ (last'.op = "set_use_displace" /\ ~bs_use_displace') =>
                  ~bs_preview_displace' /\ ~HasPreview(modifiers', "Preview_Displace")
           /\ bs_source # None =>
                  /\ HasPreview(modifiers', "Preview_Subdivision") <=>
                         (bs_preview_subdivision' /\ bs_use_subdivision')
                  /\ HasPreview(modifiers', "Preview_Displace") <=>
                         (bs_preview_displace' /\ bs_use_displace')]_vars

\* The sync slider of a list entry has been set.
SyncStep == last'.op = "set_sync_value"

\* Both keys the entry names exist: the target's and the source's.
BothKeysExist(item) ==
    /\ bs_target # None /\ HasKey(keys[bs_target], item.target_key_name)
    /\ bs_source # None /\ HasKey(keys[bs_source], item.source_key_name)

\* The entries a step gave a new sync value.
SyncChanged == {i \in DOMAIN bs_shape_keys : bs_shape_keys'[i] # bs_shape_keys[i]}

\* C17: setting the sync value of an entry with recorded key names makes the
\* activation of the named target key and of the named source key equal to
\* the new value when both keys exist, and changes no activation when either
\* does not; no other key's activation is changed by it.
C17_SyncDrivesBothKeys ==
    [][SyncStep =>
           /\ \A i \in SyncChanged :
                  IF BothKeysExist(bs_shape_keys'[i])
                  THEN /\ KeyValue(keys'[bs_target], bs_shape_keys'[i].target_key_name) =
                              bs_shape_keys'[i].sync_value
                       /\ KeyValue(keys'[bs_source], bs_shape_keys'[i].source_key_name) =
                              bs_shape_keys'[i].sync_value
                  ELSE keys' = keys
           /\ \A o \in Objs : \A k \in DOMAIN keys[o] :
                  keys'[o][k] # keys[o][k] =>
                      \E i \in DOMAIN bs_shape_keys :
                          /\ BothKeysExist(bs_shape_keys'[i])
                          /\ keys'[o][k].value = bs_shape_keys'[i].sync_value
                          /\ \/ o = bs_target /\ keys[o][k].name = bs_shape_keys'[i].target_key_name
                             \/ o = bs_source /\ keys[o][k].name = bs_shape_keys'[i].source_key_name
           /\ \A o \in Objs : KeyNameSeq(keys'[o]) = KeyNameSeq(keys[o])]_vars

\* Reached: the sync slider of a baked entry has been set to 1.0, and the
\* target key and the source key it names both stand at 1.0.
C17_Witness ==
    /\ last.op = "set_sync_value"
    /\ \E i \in DOMAIN bs_shape_keys :
           /\ bs_shape_keys[i].sync_value = One
           /\ BothKeysExist(bs_shape_keys[i])
           /\ KeyValue(keys[bs_target], bs_shape_keys[i].target_key_name) = One
           /\ KeyValue(keys[bs_source], bs_shape_keys[i].source_key_name) = One

\* C18: a run leaves the original source with the shape keys it had, by name
\* and in order, with its modifier stack and with its mesh topology: the
\* zeroing, the temporary subdivision modifier, the temporary displacement
\* key and the triangulation all land on the copy.
C18_PreprocessingOnCopyOnly ==
    [][RunStep =>
           /\ KeyNameSeq(keys'[bs_source]) = KeyNameSeq(keys[bs_source])
           /\ modifiers'[bs_source] = modifiers[bs_source]
           /\ topology'[bs_source] = topology[bs_source]]_vars

\* Reached: a run with both pre-processing options on has been carried out,
\* and the original source is untriangulated, without a temporary modifier and
\* without the temporary displacement key.
C18_Witness ==
    /\ last.op = "transfer" /\ last.validated
    /\ bs_use_subdivision /\ bs_use_displace
    /\ topology[bs_source] = "ngons"
    /\ modifiers[bs_source] = <<>>
    /\ ~HasKey(keys[bs_source], "Displace Temp")

\* A target that carries no saved data is assigned.
LoadsNoSavedData ==
    /\ last'.op = "set_target"
    /\ bs_target' # None
    /\ ~saved[bs_target'].present

\* One entry in the default state per shape key of the source, in its order.
DefaultList(src) ==
    IF src = None THEN <<>>
    ELSE [k \in DOMAIN keys[src] |-> [name |-> keys[src][k].name, select |-> FALSE,
                                      target_key_name |-> "", source_key_name |-> "",
                                      sync_value |-> Zero]]

\* C19: assigning a target that carries no saved data leaves the list with
\* exactly one entry per shape key of the source, in the source's order, each
\* unselected, with empty target and source key names and sync value zero.
C19_NewTargetGivesDefaultList ==
    [][LoadsNoSavedData => bs_shape_keys' = DefaultList(bs_source)]_vars

\* Reached: a target without saved data has just been assigned, and the list
\* holds the source's keys in the default state.
C19_Witness ==
    /\ last.op = "set_target"
    /\ bs_target # None
    /\ ~saved[bs_target].present
    /\ bs_shape_keys # <<>>
    /\ bs_shape_keys = DefaultList(bs_source)

\* The name of the target's base key once binding has ensured it (lines
\* 411-412): its first shape key, or the Basis created for it.
BaseKeyName == IF keys[bs_target] = <<>> THEN "Basis" ELSE keys[bs_target][1].name

\* C20: after a run, whatever was selected and whether or not existing keys
\* are overridden, the target's first shape key is the base key binding
\* ensured.
C20_BaseKeyStaysFirst ==
    [][RunStep =>
           /\ keys'[bs_target] # <<>>
           /\ keys'[bs_target][1].name = BaseKeyName]_vars

\* The rebuild starts from a list with entries while the target is unset or
\* has no shape keys.
RebuildWithoutTargetKeys ==
    /\ RebuildStep
    /\ bs_shape_keys # <<>>
    /\ bs_target = None \/ keys[bs_target] = <<>>

\* C21: a list rebuild that starts from a non-empty list, with the target
\* unset or without shape keys, runs to its end and leaves one entry per
\* shape key of the source: the list is neither cleared nor cut short.
C21_RebuildCompletesWithoutTargetKeys ==
    [][RebuildWithoutTargetKeys =>
           /\ last'.result = "FINISHED"
           /\ Len(bs_shape_keys') = Len(SourceKeyNameSeq(bs_source'))]_vars

\* Where the key a run bakes for entry i stands among the target's keys after
\* the run: every bake appends its key (lines 451-452), so the keys of the
\* entries baked after i stand behind it.
BakedKeyPosition(i) ==
    Len(keys'[bs_target]) - Cardinality({j \in DOMAIN bs_shape_keys : j > i /\ Baked(j)})

\* C22: after a run, the target key name recorded in every entry the run
\* baked is the name of the key the run baked for that entry, also when the
\* name the run asked for was taken and the host made the new key's name
\* unique.
C22_RecordedNameIsBakedKey ==
    [][RunStep =>
           \A i \in DOMAIN bs_shape_keys :
               Baked(i) =>
                   /\ BakedKeyPosition(i) \in DOMAIN keys'[bs_target]
                   /\ keys'[bs_target][BakedKeyPosition(i)].name =
                          bs_shape_keys'[i].target_key_name]_vars

\* C23: at every bake of a run, the key being baked stands at 1.0 on the
\* duplicate, every other key of the duplicate stands at 0 (but for the
\* temporary displacement key when displacement is enabled), and every key of
\* the target, those baked earlier in the run included, stands at 0.
C23_OnlyBakedKeyActive ==
    (last.op = "transfer" /\ last.validated) =>
        \A n \in DOMAIN last.bakes :
            LET b == last.bakes[n]
            IN /\ HasKey(b.dup, b.name)
               /\ KeyValue(b.dup, b.name) = One
               /\ \A k \in DOMAIN b.dup :
                      \/ b.dup[k].name = b.name
                      \/ b.dup[k].value = Zero
                      \/ bs_use_displace /\ b.dup[k].name = "Displace Temp"
               /\ \A k \in DOMAIN b.target : b.target[k].value = Zero

\* Reached: a run with displacement enabled has baked two entries, the second
\* with the first one's key on the target, on a target that had an active key
\* before the run and has it back after it.
C23_Witness ==
    /\ last.op = "transfer" /\ last.validated
    /\ bs_use_displace
    /\ Len(last.bakes) >= 2
    /\ HasKey(last.bakes[2].target, last.bakes[1].name)
    /\ HasKey(last.bakes[2].dup, "Displace Temp")
    /\ \E k \in DOMAIN keys[bs_target] : keys[bs_target][k].value = One

\* C24: no object other than the current source carries a preview
\* subdivision or displacement modifier; an object that was the source has
\* none once the source pointer has been reassigned or cleared.
C24_PreviewOnlyOnCurrentSource ==
    \A o \in Objs :
        o # bs_source =>
            /\ PreviewCount(modifiers[o], "Preview_Subdivision") = 0
            /\ PreviewCount(modifiers[o], "Preview_Displace") = 0
====
